---- MODULE Spec2Model ----
(***************************************************************************)
(* SafeRoute: the community feedback store (firebase safety service) and   *)
(* the relative route scoring engine (safetyScorer.ts).                    *)
(*                                                                         *)
(* Spec       the feedback store under concurrent calls and store failures *)
(* SpecArea   calculateAreaSafetyScore applied to bounded pairs of counts  *)
(* SpecElig   the eligibility check applied to bounded instants            *)
(* SpecScore  calculateMultipleRoutesSafety applied to bounded batches     *)
(*                                                                         *)
(* Time is counted in ticks of 1/TicksPerHour hour. One clock serves both  *)
(* serverTimestamp() and new Date(). Risks are exact rationals, in units   *)
(* of 1/RiskUnit.                                                          *)
(***************************************************************************)
EXTENDS Integers, Sequences, FiniteSets, TLC

\* ------------------------------------------------------------------ bounds
NCalls == 2
TicksPerHour == 2
MaxHours == 26
MaxCount == 9
MaxRoutes == 4
MaxKm == 25         \* the longest route drawn, beyond the 10 km cap
MaxMinutes == 45    \* the slowest route drawn, beyond the 30 minute cap
MaxTurns == 30      \* the most turns drawn, beyond the cap of 20
MaxPoints == 3      \* the most sample points of a route
MaxKeyLen == 5      \* the longest key drawn that getGridId did not produce

\* --------------------------------------------------------------- constants
CooldownHours == 24
NeutralScore == 50

Calls == 1..NCalls
Users == {"u1", "u2"}
NoUser == "nobody"
NoDoc == [exists |-> FALSE]
NoTime == -1
NoScore == -1
NoResult == [success |-> FALSE, message |-> "none", hours |-> NoTime, score |-> NoScore]

\* Coordinates in units of 1/10000 degree.
Coords == { <<123456, 776543>>, <<123449, 776549>>, <<123600, 776543>> }

\* Instants the clock of the store can show: 0, 23.5 hours, 24 hours.
ClockValues == {0, 23 * TicksPerHour + 1, 24 * TicksPerHour}

VARIABLES
    now,        \* the clock
    areas,      \* collection 'areas': gridId -> NoDoc or the counts
    userFb,     \* collection 'userGridFeedbacks': <<userId, gridId>> -> lastSubmittedAt
    reports,    \* collection 'areaReports'
    pc,         \* position of each call
    arg,        \* userId, gridId, isSafe of each call
    snap,       \* the document read by transaction.get
    wrote,      \* which of the three writes each call has performed
    incLog,     \* the committed count increments: call, user, grid, instant
    eligErr,    \* the eligibility read of the call failed
    result,     \* the value each call returned
    cnt,        \* SpecArea: the pair of counts and the score computed
    elig,       \* SpecElig: lastSubmittedAt, the clock and the two answers
    batch,      \* SpecScore: the routes
    env,        \* SpecScore: the environment
    results,    \* SpecScore: whether the batch was scored, and the results
    probe,      \* SpecRisk: one route, one environment and its result
    cells,      \* SpecGrid: two coordinates and their grid ids
    rc,         \* SpecRoute: the points of a route and its community score
    parse       \* SpecParse: a grid key, what parseGridId makes of it, the key again

vars == <<now, areas, userFb, reports, pc, arg, snap, wrote, incLog, eligErr, result,
          cnt, elig, batch, env, results, probe, cells, rc, parse>>

\* -------------------------------------------------------------- arithmetic
\* Math.round on a non-negative rational n/d: floor(n/d + 1/2).
RoundDiv(n, d) == (2 * n + d) \div (2 * d)

\* Math.ceil on a rational n/d, d > 0.
CeilDiv(n, d) == -((-n) \div d)

\* ---------------------------------------------------------------- grid ids
\* Math.round(x * 100) / 100 of a coordinate given in 1/10000 degree: the
\* result in 1/100 degree.
RoundCenti(x) == (2 * x + 100) \div 200

\* Variant of getGridId: the digits after the second decimal are cut off
\* instead of rounded.
getGridId_Truncating(latitude, longitude) == <<latitude \div 100, longitude \div 100>>

getGridId(latitude, longitude) == <<RoundCenti(latitude), RoundCenti(longitude)>>

Grids == { getGridId(p[1], p[2]) : p \in Coords }

\* ------------------------------------------------------------- grid keys
\* A string is a sequence of one-character strings. A number read from a
\* string is its sign, the integer its digits spell and the count of digits
\* after the point: negative, mantissa, decimals stand for
\* (-1)^negative * mantissa / 10^decimals.
DigitChars == <<"0", "1", "2", "3", "4", "5", "6", "7", "8", "9">>
Digits == {DigitChars[i] : i \in 1..Len(DigitChars)}
DigitValue(ch) == CHOOSE d \in 0..9 : DigitChars[d + 1] = ch

RECURSIVE Pow10(_)
Pow10(n) == IF n = 0 THEN 1 ELSE 10 * Pow10(n - 1)

RECURSIVE NatToChars(_)
NatToChars(n) ==
    IF n < 10 THEN <<DigitChars[n + 1]>>
    ELSE Append(NatToChars(n \div 10), DigitChars[(n % 10) + 1])

\* Number.prototype.toFixed(2) of n hundredths.
toFixed2(n) ==
    LET a == IF n < 0 THEN -n ELSE n
    IN  (IF n < 0 THEN <<"-">> ELSE <<>>)
        \o NatToChars(a \div 100)
        \o <<".", DigitChars[((a % 100) \div 10) + 1], DigitChars[(a % 10) + 1]>>

\* The template `${lat.toFixed(2)}_${lng.toFixed(2)}` of getGridId.
GridKey(gridId) == toFixed2(gridId[1]) \o <<"_">> \o toFixed2(gridId[2])

\* String.prototype.split('_') of the first n characters.
RECURSIVE SplitPrefix(_, _)
SplitPrefix(str, n) ==
    IF n = 0 THEN << <<>> >>
    ELSE LET parts == SplitPrefix(str, n - 1)
         IN  IF str[n] = "_" THEN Append(parts, <<>>)
             ELSE [parts EXCEPT ![Len(parts)] = Append(@, str[n])]

Split(str) == SplitPrefix(str, Len(str))

\* How many characters from position i on belong to S, without a break.
RECURSIVE RunOf(_, _, _)
RunOf(str, i, S) ==
    IF i > Len(str) \/ str[i] \notin S THEN 0 ELSE 1 + RunOf(str, i + 1, S)

\* The integer that the n digits from position i on spell.
RECURSIVE NumberOf(_, _, _)
NumberOf(str, i, n) ==
    IF n = 0 THEN 0 ELSE NumberOf(str, i, n - 1) * 10 + DigitValue(str[i + n - 1])

NaN == [nan |-> TRUE, negative |-> FALSE, mantissa |-> 0, decimals |-> 0]

\* parseFloat: leading white space is skipped, then the longest prefix that
\* is a decimal literal is read (a sign, digits, a point, digits); what
\* follows is ignored; NaN when that prefix holds no digit.
parseFloat(str) ==
    LET ws == RunOf(str, 1, {" "})
        signed == ws + 1 <= Len(str) /\ str[ws + 1] \in {"-", "+"}
        pos == IF signed THEN ws + 2 ELSE ws + 1
        nInt == RunOf(str, pos, Digits)
        hasPoint == pos + nInt <= Len(str) /\ str[pos + nInt] = "."
        nFrac == IF hasPoint THEN RunOf(str, pos + nInt + 1, Digits) ELSE 0
    IN  IF nInt + nFrac = 0 THEN NaN
        ELSE [nan |-> FALSE,
              negative |-> signed /\ str[ws + 1] = "-",
              mantissa |-> NumberOf(str, pos, nInt) * Pow10(nFrac)
                           + NumberOf(str, pos + nInt + 1, nFrac),
              decimals |-> nFrac]

Null == [valid |-> FALSE, lat |-> NaN, lng |-> NaN]

parseGridId(gridId) ==
    LET parts == Split(gridId)
    IN  IF Len(parts) # 2 THEN Null
        ELSE LET lat == parseFloat(parts[1])
                 lng == parseFloat(parts[2])
             IN  IF lat.nan \/ lng.nan THEN Null
                 ELSE [valid |-> TRUE, lat |-> lat, lng |-> lng]

\* A number read from a string, in 1/10000 degree.
InCoordUnits(x) ==
    LET a == (x.mantissa * 10000) \div Pow10(x.decimals)
    IN  IF x.negative THEN -a ELSE a

\* ------------------------------------------------------------- area scores
\* Variants of calculateAreaSafetyScore: no neutral score for the empty cell;
\* the share of the unsafe reports.
calculateAreaSafetyScore_NoNeutral(safeCount, unsafeCount) ==
    LET total == safeCount + unsafeCount
    IN  IF total = 0 THEN 0
        ELSE RoundDiv(safeCount * 100, total)

calculateAreaSafetyScore_UnsafeShare(safeCount, unsafeCount) ==
    LET total == safeCount + unsafeCount
    IN  IF total = 0 THEN NeutralScore
        ELSE RoundDiv(unsafeCount * 100, total)

calculateAreaSafetyScore(safeCount, unsafeCount) ==
    LET total == safeCount + unsafeCount
    IN  IF total = 0 THEN NeutralScore
        ELSE RoundDiv(safeCount * 100, total)

\* getAreaSafetyData: the document, or null when it does not exist or the
\* read fails.
getAreaSafetyData(gridId, readFails) ==
    IF readFails THEN NoDoc ELSE areas[gridId]

getAreaSafetyScore(gridId, readFails) ==
    LET data == getAreaSafetyData(gridId, readFails)
    IN  IF ~data.exists THEN NeutralScore
        ELSE calculateAreaSafetyScore(data.safeCount, data.unsafeCount)

\* ------------------------------------------------- route community score
\* [...new Set(gridIds)]: the first occurrence of each id, in order.
RECURSIVE UniquePrefix(_, _)
UniquePrefix(gridIds, n) ==
    IF n = 0 THEN <<>>
    ELSE LET front == UniquePrefix(gridIds, n - 1)
         IN  IF \E i \in 1..Len(front) : front[i] = gridIds[n] THEN front
             ELSE Append(front, gridIds[n])

\* Variant of UniqueOf: nothing is removed.
UniqueOf_KeepAll(gridIds) == gridIds

UniqueOf(gridIds) == UniquePrefix(gridIds, Len(gridIds))

\* Map.prototype.set: a key already present keeps its place.
MapSet(scores, gridId, score) ==
    IF \E i \in 1..Len(scores) : scores[i].gridId = gridId
    THEN [i \in 1..Len(scores) |->
             IF scores[i].gridId = gridId THEN [gridId |-> gridId, score |-> score]
             ELSE scores[i]]
    ELSE Append(scores, [gridId |-> gridId, score |-> score])

\* scores.forEach of calculateRouteCommunityScore over the first n entries:
\* totalScore and gridsWithData.
RECURSIVE ForEachScore(_, _)
ForEachScore(scores, n) ==
    IF n = 0 THEN [totalScore |-> 0, gridsWithData |-> 0]
    ELSE LET acc == ForEachScore(scores, n - 1)
         IN  [totalScore |-> acc.totalScore + scores[n].score,
              gridsWithData |-> IF scores[n].score # NeutralScore
                                THEN acc.gridsWithData + 1 ELSE acc.gridsWithData]

\* -------------------------------------------------------------- eligibility
\* canUserSubmitFeedback: the outcome of getDoc is "error", NoTime (no
\* document) or lastSubmittedAt.
\* Variants of canUserSubmitFeedback: a failed read lets the user submit; the
\* cooldown ends only after more than 24 hours.
canUserSubmitFeedback_FailOpen(readFails, lastSubmittedAt, clock) ==
    IF readFails \/ lastSubmittedAt = NoTime
    THEN [canSubmit |-> TRUE, hoursRemaining |-> NoTime]
    ELSE LET ticksSince == clock - lastSubmittedAt
         IN  IF ticksSince >= CooldownHours * TicksPerHour
             THEN [canSubmit |-> TRUE, hoursRemaining |-> NoTime]
             ELSE [canSubmit |-> FALSE,
                   hoursRemaining |-> CeilDiv(CooldownHours * TicksPerHour - ticksSince,
                                              TicksPerHour)]

canUserSubmitFeedback_Strict(readFails, lastSubmittedAt, clock) ==
    IF readFails THEN [canSubmit |-> FALSE, hoursRemaining |-> CooldownHours]
    ELSE IF lastSubmittedAt = NoTime THEN [canSubmit |-> TRUE, hoursRemaining |-> NoTime]
    ELSE LET ticksSince == clock - lastSubmittedAt
         IN  IF ticksSince > CooldownHours * TicksPerHour
             THEN [canSubmit |-> TRUE, hoursRemaining |-> NoTime]
             ELSE [canSubmit |-> FALSE,
                   hoursRemaining |-> CeilDiv(CooldownHours * TicksPerHour - ticksSince,
                                              TicksPerHour)]

canUserSubmitFeedback(readFails, lastSubmittedAt, clock) ==
    IF readFails THEN [canSubmit |-> FALSE, hoursRemaining |-> CooldownHours]
    ELSE IF lastSubmittedAt = NoTime THEN [canSubmit |-> TRUE, hoursRemaining |-> NoTime]
    ELSE LET ticksSince == clock - lastSubmittedAt
         IN  IF ticksSince >= CooldownHours * TicksPerHour
             THEN [canSubmit |-> TRUE, hoursRemaining |-> NoTime]
             ELSE [canSubmit |-> FALSE,
                   hoursRemaining |-> CeilDiv(CooldownHours * TicksPerHour - ticksSince,
                                              TicksPerHour)]

\* Variant of TxnCommits: a plain read-modify-write, which writes whatever it
\* computed from the document it read.
TxnCommits_Blind(read, current) == TRUE

\* The transaction commits when the document it read is still current.
TxnCommits(read, current) == read = current

\* Variant of TxnWrite: the document is always written as a new one.
TxnWrite_Overwrite(areaDoc, isSafe) ==
    [exists |-> TRUE, safeCount |-> IF isSafe THEN 1 ELSE 0,
     unsafeCount |-> IF isSafe THEN 0 ELSE 1]

\* The document the transaction writes.
TxnWrite(areaDoc, isSafe) ==
    IF ~areaDoc.exists
    THEN [exists |-> TRUE, safeCount |-> IF isSafe THEN 1 ELSE 0,
          unsafeCount |-> IF isSafe THEN 0 ELSE 1]
    ELSE [exists |-> TRUE,
          safeCount |-> IF isSafe THEN areaDoc.safeCount + 1 ELSE areaDoc.safeCount,
          unsafeCount |-> IF isSafe THEN areaDoc.unsafeCount ELSE areaDoc.unsafeCount + 1]

GenericFailure == [success |-> FALSE, message |-> "failed", hours |-> NoTime, score |-> NoScore]
LoginFailure == [success |-> FALSE, message |-> "login", hours |-> NoTime, score |-> NoScore]
CooldownFailure(h) == [success |-> FALSE, message |-> "cooldown", hours |-> h, score |-> NoScore]
Eligible == [success |-> TRUE, message |-> "eligible", hours |-> NoTime, score |-> NoScore]

\* What submitSafetyFeedback returns on the answer e of canUserSubmitFeedback:
\* the cooldown message with the hours, or nothing yet (it goes on).
SubmitAnswer(e) ==
    IF ~e.canSubmit THEN CooldownFailure(e.hoursRemaining) ELSE Eligible

\* What checkFeedbackEligibility returns on the answer e.
EligibilityAnswer(e) ==
    IF ~e.canSubmit THEN CooldownFailure(e.hoursRemaining) ELSE Eligible

\* ------------------------------------------------------- the route scorer
\* A risk sub-factor f in [0,1] is the integer f * FactorUnit; a weight w is
\* the integer w * WeightUnit; a total risk r is the integer r * RiskUnit.
\* FactorUnit is divisible by 10, 30 and 20 (the three quotients) and by 10
\* (the tables, in tenths).
FactorUnit == 10 * 30 * 2
WeightUnit == 10 * 10
RiskUnit == FactorUnit * WeightUnit

Absent == "absent"

Min(a, b) == IF a <= b THEN a ELSE b
Max(a, b) == IF a >= b THEN a ELSE b

WEIGHTS == [crime |-> 25, lighting |-> 15, time |-> 15, distance |-> 10,
            duration |-> 10, roadType |-> 10, weather |-> 10, turn |-> 5]

RELATIVE_SCORE_RANGES ==
    [safest |-> [min |-> 75, max |-> 92],
     moderate |-> [min |-> 58, max |-> 74],
     riskiest |-> [min |-> 42, max |-> 57]]

\* Variant of calculateDistanceRisk: the quotient without the cap at 1.
calculateDistanceRisk_Uncapped(distanceKm) == (distanceKm * FactorUnit) \div 10

calculateDistanceRisk(distanceKm) == Min((distanceKm * FactorUnit) \div 10, FactorUnit)
calculateDurationRisk(durationMin) == Min((durationMin * FactorUnit) \div 30, FactorUnit)
calculateTurnRisk(turnCount) == Min((turnCount * FactorUnit) \div 20, FactorUnit)

\* Variants of calculateTimeRisk: the night begins at 23 instead of 22; the
\* morning ends at 6 instead of 7.
calculateTimeRisk_LateNight(hour) ==
    IF hour >= 23 \/ hour <= 5 THEN 600
    ELSE IF hour >= 19 \/ hour <= 7 THEN 360
    ELSE 120

calculateTimeRisk_MorningTo6(hour) ==
    IF hour >= 22 \/ hour <= 5 THEN 600
    ELSE IF hour >= 19 \/ hour <= 6 THEN 360
    ELSE 120

calculateTimeRisk(hour) ==
    IF hour >= 22 \/ hour <= 5 THEN 600
    ELSE IF hour >= 19 \/ hour <= 7 THEN 360
    ELSE 120

calculateWeatherRisk(weather) ==
    CASE weather = "clear" -> 60
      [] weather = "cloudy" -> 180
      [] weather = "rain" -> 360
      [] weather = "storm" -> 540
      [] weather = "fog" -> 540
      [] OTHER -> 180

calculateCrimeRisk(crimeLevel) ==
    CASE crimeLevel = "low" -> 120
      [] crimeLevel = "medium" -> 300
      [] crimeLevel = "high" -> 540
      [] OTHER -> 300

calculateLightingRisk(lightingLevel) ==
    CASE lightingLevel = "well_lit" -> 120
      [] lightingLevel = "partially_lit" -> 300
      [] lightingLevel = "dark" -> 540
      [] OTHER -> 300

calculateRoadTypeRisk(roadType) ==
    CASE roadType = "highway" -> 180
      [] roadType = "main_road" -> 240
      [] roadType = "residential" -> 360
      [] roadType = "alley" -> 480
      [] OTHER -> 300

getSafetyCategory(rank, totalRoutes) ==
    IF totalRoutes = 1 THEN "Safest Option"
    ELSE IF rank = 1 THEN "Safest Option"
    ELSE IF rank = totalRoutes THEN "Least Safe Option"
    ELSE "Moderate Option"

calculateRawRiskScore(route, environment) ==
    LET crimeLevel == IF route.crimeLevel = Absent THEN "medium" ELSE route.crimeLevel
        lightingLevel == IF route.lightingLevel = Absent THEN "partially_lit"
                         ELSE route.lightingLevel
        roadType == IF route.roadType = Absent THEN "residential" ELSE route.roadType
        f == [distanceRisk |-> calculateDistanceRisk(route.distanceKm),
              durationRisk |-> calculateDurationRisk(route.durationMin),
              turnRisk |-> calculateTurnRisk(route.turnCount),
              timeRisk |-> calculateTimeRisk(environment.currentHour),
              weatherRisk |-> calculateWeatherRisk(environment.weatherCondition),
              crimeRisk |-> calculateCrimeRisk(crimeLevel),
              lightingRisk |-> calculateLightingRisk(lightingLevel),
              roadTypeRisk |-> calculateRoadTypeRisk(roadType)]
        totalRisk == f.crimeRisk * WEIGHTS.crime + f.lightingRisk * WEIGHTS.lighting
                     + f.timeRisk * WEIGHTS.time + f.distanceRisk * WEIGHTS.distance
                     + f.durationRisk * WEIGHTS.duration + f.roadTypeRisk * WEIGHTS.roadType
                     + f.weatherRisk * WEIGHTS.weather + f.turnRisk * WEIGHTS.turn
    IN  [riskFactors |-> f, totalRisk |-> totalRisk]

SeqMin(xs) == CHOOSE m \in {xs[i] : i \in 1..Len(xs)} : \A i \in 1..Len(xs) : m <= xs[i]
SeqMax(xs) == CHOOSE m \in {xs[i] : i \in 1..Len(xs)} : \A i \in 1..Len(xs) : m >= xs[i]

\* Variant of calculateRelativeScore: the last rank has no band of its own and
\* is scored in the moderate band.
calculateRelativeScore_NoRiskiestBand(rank, totalRoutes, rawRisk, allRawRisks) ==
    IF totalRoutes = 1
    THEN RoundDiv(Max(55 * RiskUnit, Min(90 * RiskUnit,
                                         (RiskUnit - rawRisk) * 100 + 15 * RiskUnit)),
                  RiskUnit)
    ELSE LET scoreRange == IF rank = 1 THEN RELATIVE_SCORE_RANGES.safest
                           ELSE RELATIVE_SCORE_RANGES.moderate
             minRisk == SeqMin(allRawRisks)
             maxRisk == SeqMax(allRawRisks)
             riskSpread == maxRisk - minRisk
             width == scoreRange.max - scoreRange.min
         IN  IF riskSpread * 100 < RiskUnit
             THEN RoundDiv(scoreRange.min * 10 + width * 7, 10)
             ELSE RoundDiv(scoreRange.min * riskSpread
                           + width * (riskSpread - (rawRisk - minRisk)), riskSpread)

\* Variant of calculateRelativeScore: a single route's score is not clamped
\* to 55..90.
calculateRelativeScore_NoClamp(rank, totalRoutes, rawRisk, allRawRisks) ==
    IF totalRoutes = 1
    THEN RoundDiv((RiskUnit - rawRisk) * 100 + 15 * RiskUnit, RiskUnit)
    ELSE LET scoreRange == IF rank = 1 THEN RELATIVE_SCORE_RANGES.safest
                           ELSE IF rank = totalRoutes THEN RELATIVE_SCORE_RANGES.riskiest
                           ELSE RELATIVE_SCORE_RANGES.moderate
             minRisk == SeqMin(allRawRisks)
             maxRisk == SeqMax(allRawRisks)
             riskSpread == maxRisk - minRisk
             width == scoreRange.max - scoreRange.min
         IN  IF riskSpread * 100 < RiskUnit
             THEN RoundDiv(scoreRange.min * 10 + width * 7, 10)
             ELSE RoundDiv(scoreRange.min * riskSpread
                           + width * (riskSpread - (rawRisk - minRisk)), riskSpread)

\* Variant of calculateRelativeScore: the position within the band grows
\* with the risk instead of falling with it.
calculateRelativeScore_NotInverted(rank, totalRoutes, rawRisk, allRawRisks) ==
    IF totalRoutes = 1
    THEN RoundDiv(Max(55 * RiskUnit, Min(90 * RiskUnit,
                                         (RiskUnit - rawRisk) * 100 + 15 * RiskUnit)),
                  RiskUnit)
    ELSE LET scoreRange == IF rank = 1 THEN RELATIVE_SCORE_RANGES.safest
                           ELSE IF rank = totalRoutes THEN RELATIVE_SCORE_RANGES.riskiest
                           ELSE RELATIVE_SCORE_RANGES.moderate
             minRisk == SeqMin(allRawRisks)
             maxRisk == SeqMax(allRawRisks)
             riskSpread == maxRisk - minRisk
             width == scoreRange.max - scoreRange.min
         IN  IF riskSpread * 100 < RiskUnit
             THEN RoundDiv(scoreRange.min * 10 + width * 7, 10)
             ELSE RoundDiv(scoreRange.min * riskSpread
                           + width * (rawRisk - minRisk), riskSpread)

\* Variant of calculateRelativeScore: routes that cannot be told apart sit in
\* the middle of the band, not at 70% of it.
calculateRelativeScore_HalfBand(rank, totalRoutes, rawRisk, allRawRisks) ==
    IF totalRoutes = 1
    THEN RoundDiv(Max(55 * RiskUnit, Min(90 * RiskUnit,
                                         (RiskUnit - rawRisk) * 100 + 15 * RiskUnit)),
                  RiskUnit)
    ELSE LET scoreRange == IF rank = 1 THEN RELATIVE_SCORE_RANGES.safest
                           ELSE IF rank = totalRoutes THEN RELATIVE_SCORE_RANGES.riskiest
                           ELSE RELATIVE_SCORE_RANGES.moderate
             minRisk == SeqMin(allRawRisks)
             maxRisk == SeqMax(allRawRisks)
             riskSpread == maxRisk - minRisk
             width == scoreRange.max - scoreRange.min
         IN  IF riskSpread * 100 < RiskUnit
             THEN RoundDiv(scoreRange.min * 10 + width * 5, 10)
             ELSE RoundDiv(scoreRange.min * riskSpread
                           + width * (riskSpread - (rawRisk - minRisk)), riskSpread)

calculateRelativeScore(rank, totalRoutes, rawRisk, allRawRisks) ==
    IF totalRoutes = 1
    THEN RoundDiv(Max(55 * RiskUnit, Min(90 * RiskUnit,
                                         (RiskUnit - rawRisk) * 100 + 15 * RiskUnit)),
                  RiskUnit)
    ELSE LET scoreRange == IF rank = 1 THEN RELATIVE_SCORE_RANGES.safest
                           ELSE IF rank = totalRoutes THEN RELATIVE_SCORE_RANGES.riskiest
                           ELSE RELATIVE_SCORE_RANGES.moderate
             minRisk == SeqMin(allRawRisks)
             maxRisk == SeqMax(allRawRisks)
             riskSpread == maxRisk - minRisk
             width == scoreRange.max - scoreRange.min
         IN  IF riskSpread * 100 < RiskUnit
             THEN RoundDiv(scoreRange.min * 10 + width * 7, 10)
             ELSE RoundDiv(scoreRange.min * riskSpread
                           + width * (riskSpread - (rawRisk - minRisk)), riskSpread)

\* ------------------------------------------- highlights, recommendations
\* highlights.push(x) under a condition, and Array.prototype.slice(0, n).
\* The two rank highlights are written without their leading glyph.
PushIf(list, cond, x) == IF cond THEN Append(list, x) ELSE list
Slice(list, n) == SubSeq(list, 1, Min(Len(list), n))

\* String.prototype.includes over the strings the two generators produce:
\* the only one that contains 'traffic', and the two that contain
\* 'conditions'.
Includes(h, word) ==
    CASE word = "traffic" -> h = "Moderate traffic expected"
      [] word = "conditions" -> h \in {"Clear weather conditions", "Standard route conditions"}
      [] OTHER -> FALSE

\* The template `${environment.weatherCondition} weather advisory`.
WeatherAdvisory(weather) ==
    CASE weather = "clear" -> "clear weather advisory"
      [] weather = "cloudy" -> "cloudy weather advisory"
      [] weather = "rain" -> "rain weather advisory"
      [] weather = "storm" -> "storm weather advisory"
      [] weather = "fog" -> "fog weather advisory"
      [] OTHER -> "weather advisory"

\* The thresholds 0.2, 0.3, 0.4, 0.7 and 0.8 are in tenths of FactorUnit.
Tenths(n) == (n * FactorUnit) \div 10

generateHighlights(riskFactors, rank, totalRoutes, environment) ==
    LET h0 == IF rank = 1 THEN <<"Safest among all alternatives">>
              ELSE IF rank = totalRoutes /\ totalRoutes > 1
                   THEN <<"Highest risk among alternatives">>
                   ELSE <<>>
        h1 == PushIf(h0, riskFactors.crimeRisk <= Tenths(3), "Lower crime area")
        h2 == PushIf(h1, riskFactors.lightingRisk <= Tenths(3), "Well-lit streets")
        h3 == PushIf(h2, riskFactors.timeRisk <= Tenths(3), "Safe travel time")
        h4 == PushIf(h3, riskFactors.roadTypeRisk <= Tenths(4), "Main roads preferred")
        h5 == PushIf(h4, riskFactors.weatherRisk <= Tenths(2), "Clear weather conditions")
        h6 == PushIf(h5, riskFactors.turnRisk <= Tenths(3), "Straightforward route")
        h7 == PushIf(h6, riskFactors.distanceRisk <= Tenths(3), "Short distance")
        h8 == PushIf(h7, riskFactors.crimeRisk >= Tenths(7), "Higher crime area - stay alert")
        h9 == PushIf(h8, riskFactors.lightingRisk >= Tenths(7), "Limited street lighting")
        h10 == PushIf(h9, riskFactors.timeRisk >= Tenths(8), "Late night travel")
        h11 == PushIf(h10, riskFactors.roadTypeRisk >= Tenths(7),
                      "Includes narrow streets/alleys")
        h12 == PushIf(h11, riskFactors.weatherRisk >= Tenths(7),
                      WeatherAdvisory(environment.weatherCondition))
        h13 == PushIf(h12, Len(h12) < 3 /\ \A i \in 1..Len(h12) : ~Includes(h12[i], "traffic"),
                      "Moderate traffic expected")
        h14 == PushIf(h13, Len(h12) < 3 /\ \A i \in 1..Len(h13) : ~Includes(h13[i], "conditions"),
                      "Standard route conditions")
    IN  Slice(h14, 5)

generateRecommendations(riskFactors, rank, totalRoutes) ==
    LET r0 == <<"Share your live location with trusted contacts">>
        r1 == IF rank = 1 THEN Append(r0, "This is your safest option - recommended")
              ELSE IF rank = totalRoutes /\ totalRoutes > 1
                   THEN Append(r0, "Consider the safest alternative if possible")
                   ELSE r0
        r2 == IF riskFactors.timeRisk >= Tenths(8)
              THEN r1 \o <<"Consider traveling with a companion at night",
                           "Keep your phone charged and accessible">>
              ELSE r1
        r3 == PushIf(r2, riskFactors.crimeRisk >= Tenths(7), "Stay on well-populated streets")
        r4 == PushIf(r3, riskFactors.lightingRisk >= Tenths(7), "Stay aware of your surroundings")
    IN  Slice(r4, 4)

\* Array.prototype.sort with the comparator a.totalRisk - b.totalRisk: a
\* stable sort, ascending. x goes after the elements that are not greater.
RECURSIVE InsertByRisk(_, _)
InsertByRisk(sorted, x) ==
    IF sorted = <<>> THEN <<x>>
    ELSE IF sorted[Len(sorted)].totalRisk <= x.totalRisk THEN Append(sorted, x)
    ELSE Append(InsertByRisk(SubSeq(sorted, 1, Len(sorted) - 1), x), sorted[Len(sorted)])

RECURSIVE SortPrefix(_, _)
SortPrefix(xs, n) ==
    IF n = 0 THEN <<>> ELSE InsertByRisk(SortPrefix(xs, n - 1), xs[n])

\* Variant of sortByRisk: a sort that is not stable, which leaves routes of
\* equal risk in the reverse of their input order.
sortByRisk_TiesReversed(routeRisks) ==
    SortPrefix([i \in 1..Len(routeRisks) |-> routeRisks[Len(routeRisks) + 1 - i]],
               Len(routeRisks))

sortByRisk(routeRisks) == SortPrefix(routeRisks, Len(routeRisks))

\* sortedByRisk.findIndex(r => r.route.routeId === routeId) + 1
findRank(sortedByRisk, routeId) ==
    CHOOSE k \in 1..Len(sortedByRisk) :
        /\ sortedByRisk[k].route.routeId = routeId
        /\ \A j \in 1..(k - 1) : sortedByRisk[j].route.routeId # routeId

\* Variant of calculateMultipleRoutesSafety: the results are built from the
\* sorted list, safest first, instead of from the input list.
calculateMultipleRoutesSafety_SortedOrder(routes, environment) ==
    IF Len(routes) = 0 THEN <<>>
    ELSE LET routeRisks == [i \in 1..Len(routes) |->
                               [route |-> routes[i],
                                riskFactors |-> calculateRawRiskScore(routes[i], environment).riskFactors,
                                totalRisk |-> calculateRawRiskScore(routes[i], environment).totalRisk]]
             sortedByRisk == sortByRisk(routeRisks)
             allRawRisks == [i \in 1..Len(routes) |-> routeRisks[i].totalRisk]
         IN  [i \in 1..Len(routes) |->
                LET rank == findRank(sortedByRisk, sortedByRisk[i].route.routeId)
                IN  [routeId |-> sortedByRisk[i].route.routeId,
                     safetyScore |-> calculateRelativeScore(rank, Len(routes),
                                                            sortedByRisk[i].totalRisk, allRawRisks),
                     rawRiskScore |-> RoundDiv(sortedByRisk[i].totalRisk * 100, RiskUnit),
                     safetyCategory |-> getSafetyCategory(rank, Len(routes)),
                     riskFactors |-> sortedByRisk[i].riskFactors,
                     totalRawRisk |-> sortedByRisk[i].totalRisk,
                     highlights |-> generateHighlights(sortedByRisk[i].riskFactors, rank,
                                                       Len(routes), environment),
                     recommendations |-> generateRecommendations(sortedByRisk[i].riskFactors,
                                                                 rank, Len(routes)),
                     rank |-> rank,
                     isRelativeScore |-> TRUE]]

calculateMultipleRoutesSafety(routes, environment) ==
    IF Len(routes) = 0 THEN <<>>
    ELSE LET routeRisks == [i \in 1..Len(routes) |->
                               [route |-> routes[i],
                                riskFactors |-> calculateRawRiskScore(routes[i], environment).riskFactors,
                                totalRisk |-> calculateRawRiskScore(routes[i], environment).totalRisk]]
             sortedByRisk == sortByRisk(routeRisks)
             allRawRisks == [i \in 1..Len(routes) |-> routeRisks[i].totalRisk]
         IN  [i \in 1..Len(routes) |->
                LET rank == findRank(sortedByRisk, routeRisks[i].route.routeId)
                IN  [routeId |-> routeRisks[i].route.routeId,
                     safetyScore |-> calculateRelativeScore(rank, Len(routes),
                                                            routeRisks[i].totalRisk, allRawRisks),
                     rawRiskScore |-> RoundDiv(routeRisks[i].totalRisk * 100, RiskUnit),
                     safetyCategory |-> getSafetyCategory(rank, Len(routes)),
                     riskFactors |-> routeRisks[i].riskFactors,
                     totalRawRisk |-> routeRisks[i].totalRisk,
                     highlights |-> generateHighlights(routeRisks[i].riskFactors, rank,
                                                       Len(routes), environment),
                     recommendations |-> generateRecommendations(routeRisks[i].riskFactors,
                                                                 rank, Len(routes)),
                     rank |-> rank,
                     isRelativeScore |-> TRUE]]

calculateRouteSafetyScore(route, environment) ==
    calculateMultipleRoutesSafety(<<route>>, environment)[1]

\* The routes the batches are made of: a safe one, one with every optional
\* field missing, a risky one, the defaults spelled out, one close to the
\* safe one.
RouteShapes ==
    { [distanceKm |-> 2, durationMin |-> 10, turnCount |-> 4,
       roadType |-> "highway", crimeLevel |-> "low", lightingLevel |-> "well_lit"],
      [distanceKm |-> 5, durationMin |-> 15, turnCount |-> 8,
       roadType |-> Absent, crimeLevel |-> Absent, lightingLevel |-> Absent],
      [distanceKm |-> 12, durationMin |-> 40, turnCount |-> 25,
       roadType |-> "alley", crimeLevel |-> "high", lightingLevel |-> "dark"],
      [distanceKm |-> 5, durationMin |-> 15, turnCount |-> 8,
       roadType |-> "residential", crimeLevel |-> "medium", lightingLevel |-> "partially_lit"],
      [distanceKm |-> 2, durationMin |-> 10, turnCount |-> 5,
       roadType |-> "highway", crimeLevel |-> "low", lightingLevel |-> "well_lit"] }

RouteIds == <<"A", "B", "C", "D">>

\* routeId is only ever compared for equality, so a route that joins a batch
\* takes an id the batch already holds or the first one it does not hold.
IdsFor(routes) ==
    LET used == {routes[i].routeId : i \in 1..Len(routes)}
    IN  used \cup {RouteIds[k] : k \in {k \in 1..Len(RouteIds) : k = Cardinality(used) + 1}}

\* Night and fog, midday and clear, evening and cloudy.
Environments ==
    { [currentHour |-> 2, weatherCondition |-> "fog"],
      [currentHour |-> 13, weatherCondition |-> "clear"],
      [currentHour |-> 20, weatherCondition |-> "cloudy"] }

WithId(shape, id) ==
    [routeId |-> id, distanceKm |-> shape.distanceKm, durationMin |-> shape.durationMin,
     turnCount |-> shape.turnCount, roadType |-> shape.roadType,
     crimeLevel |-> shape.crimeLevel, lightingLevel |-> shape.lightingLevel]

\* -------------------------------------------------------------------- Init
\* No call of submitSafetyFeedback has been made.
InitCalls ==
    /\ now = 0
    /\ userFb = [k \in Users \X Grids |-> NoTime]
    /\ reports = {}
    /\ pc = [c \in Calls |-> "idle"]
    /\ arg = [c \in Calls |-> [userId |-> NoUser, gridId |-> <<0, 0>>, isSafe |-> FALSE]]
    /\ snap = [c \in Calls |-> NoDoc]
    /\ wrote = [c \in Calls |-> {}]
    /\ incLog = {}
    /\ eligErr = [c \in Calls |-> FALSE]
    /\ result = [c \in Calls |-> NoResult]

InitStore ==
    /\ areas = [g \in Grids |-> NoDoc]
    /\ InitCalls

\* The variables of the other specifications, at rest.
AreaIdle == cnt = [safeCount |-> 0, unsafeCount |-> 0, score |-> NoScore,
                   isSafe |-> FALSE, after |-> NoDoc, newScore |-> NoScore]

EligIdle == elig = [lastSubmittedAt |-> NoTime, clock |-> 0, readFails |-> FALSE,
                    answer |-> NoResult, public |-> NoResult]

ScoreIdle ==
    /\ batch = <<>>
    /\ env = [currentHour |-> 12, weatherCondition |-> "clear"]
    /\ results = [scored |-> FALSE, list |-> <<>>, alone |-> <<>>]

RiskIdle == probe = [scored |-> FALSE, route |-> <<>>, environment |-> <<>>, out |-> <<>>]

GridIdle == cells = [done |-> FALSE, p |-> <<0, 0>>, q |-> <<0, 0>>,
                     idP |-> <<0, 0>>, idQ |-> <<0, 0>>]

RouteIdle == rc = [pc |-> "idle", points |-> <<>>, uniqueGridIds |-> <<>>, toRead |-> <<>>,
                   pending |-> {}, scores |-> <<>>, failed |-> {}, out |-> <<>>]

ParseIdle == parse = [pc |-> "idle", fromPoint |-> FALSE, point |-> <<0, 0>>, key |-> <<>>,
                      out |-> <<>>, back |-> <<>>]

OthersIdle == RiskIdle /\ GridIdle /\ RouteIdle /\ ParseIdle

Init == InitStore /\ AreaIdle /\ EligIdle /\ ScoreIdle /\ OthersIdle

\* ------------------------------------------------------ the feedback store
Return(c, r) ==
    /\ pc' = [pc EXCEPT ![c] = "done"]
    /\ result' = [result EXCEPT ![c] = r]

\* submitSafetyFeedback up to its first await: the authentication check and
\* the grid id.
Submit(c) ==
    /\ pc[c] = "idle"
    /\ \A d \in Calls : d < c => pc[d] # "idle"
    /\ \E u \in Users \cup {NoUser}, p \in Coords, s \in BOOLEAN :
        IF u = NoUser
        THEN /\ Return(c, LoginFailure)
             /\ UNCHANGED arg
        ELSE /\ arg' = [arg EXCEPT ![c] = [userId |-> u, gridId |-> getGridId(p[1], p[2]),
                                           isSafe |-> s]]
             /\ pc' = [pc EXCEPT ![c] = "eligibility"]
             /\ UNCHANGED result
    /\ UNCHANGED <<now, areas, userFb, reports, snap, wrote, incLog, eligErr>>

\* Variant of CheckCooldown: a denied call refreshes the cooldown record.
CheckCooldown_Refresh(c) ==
    /\ pc[c] = "eligibility"
    /\ \E readFails \in BOOLEAN :
        LET e == canUserSubmitFeedback(readFails, userFb[<<arg[c].userId, arg[c].gridId>>], now)
        IN  /\ eligErr' = [eligErr EXCEPT ![c] = readFails]
            /\ IF ~e.canSubmit
               THEN /\ Return(c, SubmitAnswer(e))
                    /\ userFb' = [userFb EXCEPT ![<<arg[c].userId, arg[c].gridId>>] = now]
               ELSE /\ pc' = [pc EXCEPT ![c] = "txnGet"]
                    /\ UNCHANGED <<result, userFb>>
    /\ UNCHANGED <<now, areas, reports, arg, snap, wrote, incLog>>

\* await canUserSubmitFeedback(userId, gridId) and the branch on its result.
CheckCooldown(c) ==
    /\ pc[c] = "eligibility"
    /\ \E readFails \in BOOLEAN :
        LET e == canUserSubmitFeedback(readFails, userFb[<<arg[c].userId, arg[c].gridId>>], now)
        IN  /\ eligErr' = [eligErr EXCEPT ![c] = readFails]
            /\ IF ~e.canSubmit
               THEN Return(c, SubmitAnswer(e))
               ELSE /\ pc' = [pc EXCEPT ![c] = "txnGet"]
                    /\ UNCHANGED result
    /\ UNCHANGED <<now, areas, userFb, reports, arg, snap, wrote, incLog>>

\* transaction.get(areaRef), or the transaction fails.
TxnGet(c) ==
    /\ pc[c] = "txnGet"
    /\ \E fails \in BOOLEAN :
        IF fails
        THEN /\ Return(c, GenericFailure)
             /\ UNCHANGED snap
        ELSE /\ snap' = [snap EXCEPT ![c] = areas[arg[c].gridId]]
             /\ pc' = [pc EXCEPT ![c] = "txnCommit"]
             /\ UNCHANGED result
    /\ UNCHANGED <<now, areas, userFb, reports, arg, wrote, incLog, eligErr>>

\* Variant of TxnCommit: a failed transaction does not end the call, which
\* goes on to the cooldown record.
TxnCommit_SwallowsFailure(c) ==
    /\ pc[c] = "txnCommit"
    /\ \E fails \in BOOLEAN :
        IF fails
        THEN /\ pc' = [pc EXCEPT ![c] = "cooldown"]
             /\ UNCHANGED <<areas, wrote, incLog, result>>
        ELSE IF TxnCommits(snap[c], areas[arg[c].gridId])
        THEN /\ areas' = [areas EXCEPT ![arg[c].gridId] = TxnWrite(snap[c], arg[c].isSafe)]
             /\ wrote' = [wrote EXCEPT ![c] = @ \cup {"counts"}]
             /\ incLog' = incLog \cup {[call |-> c, userId |-> arg[c].userId,
                                        gridId |-> arg[c].gridId, at |-> now]}
             /\ pc' = [pc EXCEPT ![c] = "cooldown"]
             /\ UNCHANGED result
        ELSE /\ pc' = [pc EXCEPT ![c] = "txnGet"]
             /\ UNCHANGED <<areas, wrote, incLog, result>>
    /\ UNCHANGED <<now, userFb, reports, arg, snap, eligErr>>

\* The commit of the transaction: it writes when the document is unchanged
\* since the read, runs the update function again when it is not, or fails.
TxnCommit(c) ==
    /\ pc[c] = "txnCommit"
    /\ \E fails \in BOOLEAN :
        IF fails
        THEN /\ Return(c, GenericFailure)
             /\ UNCHANGED <<areas, wrote, incLog>>
        ELSE IF TxnCommits(snap[c], areas[arg[c].gridId])
        THEN /\ areas' = [areas EXCEPT ![arg[c].gridId] = TxnWrite(snap[c], arg[c].isSafe)]
             /\ wrote' = [wrote EXCEPT ![c] = @ \cup {"counts"}]
             /\ incLog' = incLog \cup {[call |-> c, userId |-> arg[c].userId,
                                        gridId |-> arg[c].gridId, at |-> now]}
             /\ pc' = [pc EXCEPT ![c] = "cooldown"]
             /\ UNCHANGED result
        ELSE /\ pc' = [pc EXCEPT ![c] = "txnGet"]
             /\ UNCHANGED <<areas, wrote, incLog, result>>
    /\ UNCHANGED <<now, userFb, reports, arg, snap, eligErr>>

\* await recordUserFeedback(userId, gridId)
recordUserFeedback(c) ==
    /\ pc[c] = "cooldown"
    /\ \E fails \in BOOLEAN :
        IF fails
        THEN /\ Return(c, GenericFailure)
             /\ UNCHANGED <<userFb, wrote>>
        ELSE /\ userFb' = [userFb EXCEPT ![<<arg[c].userId, arg[c].gridId>>] = now]
             /\ wrote' = [wrote EXCEPT ![c] = @ \cup {"cooldown"}]
             /\ pc' = [pc EXCEPT ![c] = "report"]
             /\ UNCHANGED result
    /\ UNCHANGED <<now, areas, reports, arg, snap, incLog, eligErr>>

\* await addDoc(collection(db, 'areaReports'), reportData)
AddReport(c) ==
    /\ pc[c] = "report"
    /\ \E fails \in BOOLEAN :
        IF fails
        THEN /\ Return(c, GenericFailure)
             /\ UNCHANGED <<reports, wrote>>
        ELSE /\ reports' = reports \cup {[id |-> c, gridId |-> arg[c].gridId,
                                          userId |-> arg[c].userId, isSafe |-> arg[c].isSafe]}
             /\ wrote' = [wrote EXCEPT ![c] = @ \cup {"report"}]
             /\ pc' = [pc EXCEPT ![c] = "score"]
             /\ UNCHANGED result
    /\ UNCHANGED <<now, areas, userFb, arg, snap, incLog, eligErr>>

\* await getAreaSafetyScore(gridId) and the successful return.
ReadNewScore(c) ==
    /\ pc[c] = "score"
    /\ \E readFails \in BOOLEAN :
        Return(c, [success |-> TRUE,
                   message |-> IF arg[c].isSafe THEN "safe" ELSE "unsafe",
                   hours |-> NoTime,
                   score |-> getAreaSafetyScore(arg[c].gridId, readFails)])
    /\ UNCHANGED <<now, areas, userFb, reports, arg, snap, wrote, incLog, eligErr>>

\* checkFeedbackEligibility(gridId)
checkFeedbackEligibility(c) ==
    /\ pc[c] = "idle"
    /\ \A d \in Calls : d < c => pc[d] # "idle"
    /\ \E u \in Users \cup {NoUser}, g \in Grids, readFails \in BOOLEAN :
        IF u = NoUser
        THEN /\ Return(c, LoginFailure)
             /\ UNCHANGED <<arg, eligErr>>
        ELSE LET e == canUserSubmitFeedback(readFails, userFb[<<u, g>>], now)
             IN  /\ arg' = [arg EXCEPT ![c] = [userId |-> u, gridId |-> g, isSafe |-> FALSE]]
                 /\ eligErr' = [eligErr EXCEPT ![c] = readFails]
                 /\ Return(c, EligibilityAnswer(e))
    /\ UNCHANGED <<now, areas, userFb, reports, snap, wrote, incLog>>

\* Time passes.
Tick ==
    /\ \E t \in ClockValues : t > now /\ now' = t
    /\ UNCHANGED <<areas, userFb, reports, pc, arg, snap, wrote, incLog, eligErr, result>>

NextStore ==
    \/ \E c \in Calls : Submit(c)
    \/ \E c \in Calls : CheckCooldown(c)
    \/ \E c \in Calls : TxnGet(c)
    \/ \E c \in Calls : TxnCommit(c)
    \/ \E c \in Calls : recordUserFeedback(c)
    \/ \E c \in Calls : AddReport(c)
    \/ \E c \in Calls : ReadNewScore(c)
    \/ \E c \in Calls : checkFeedbackEligibility(c)
    \/ Tick

Next == NextStore /\ UNCHANGED <<cnt, elig, batch, env, results, probe, cells, rc, parse>>

Spec == Init /\ [][Next]_vars

\* ------------------------------------------------- SpecArea: the area score
InitArea ==
    /\ InitStore /\ EligIdle /\ ScoreIdle /\ OthersIdle
    /\ \E s \in 0..MaxCount, u \in 0..MaxCount :
        cnt = [safeCount |-> s, unsafeCount |-> u, score |-> NoScore,
               isSafe |-> FALSE, after |-> NoDoc, newScore |-> NoScore]

ComputeAreaScore ==
    /\ cnt.score = NoScore
    /\ cnt' = [cnt EXCEPT !.score = calculateAreaSafetyScore(cnt.safeCount, cnt.unsafeCount)]
    /\ UNCHANGED <<now, areas, userFb, reports, pc, arg, snap, wrote, incLog, eligErr, result,
                   elig, batch, env, results, probe, cells, rc, parse>>

\* The area document that holds a pair of counts: none for the empty cell,
\* since a document is created with its first report.
AreaDocOf(safeCount, unsafeCount) ==
    IF safeCount + unsafeCount = 0
    THEN NoDoc
    ELSE [exists |-> TRUE, safeCount |-> safeCount, unsafeCount |-> unsafeCount]

\* One report is written to the cell by the count transaction, and the score
\* of the cell is computed again from the document written.
ReportToArea ==
    /\ cnt.score # NoScore
    /\ cnt.newScore = NoScore
    /\ \E isSafe \in BOOLEAN :
        LET written == TxnWrite(AreaDocOf(cnt.safeCount, cnt.unsafeCount), isSafe)
        IN  cnt' = [cnt EXCEPT !.isSafe = isSafe,
                               !.after = written,
                               !.newScore = calculateAreaSafetyScore(written.safeCount,
                                                                     written.unsafeCount)]
    /\ UNCHANGED <<now, areas, userFb, reports, pc, arg, snap, wrote, incLog, eligErr, result,
                   elig, batch, env, results, probe, cells, rc, parse>>

NextArea == ComputeAreaScore \/ ReportToArea

SpecArea == InitArea /\ [][NextArea]_vars

\* -------------------------------------------- SpecElig: the eligibility check
InitElig ==
    /\ InitStore /\ AreaIdle /\ ScoreIdle /\ OthersIdle
    /\ \E last \in {NoTime, 0, 1}, t \in 1..(MaxHours * TicksPerHour), f \in BOOLEAN :
        elig = [lastSubmittedAt |-> last, clock |-> t, readFails |-> f,
                answer |-> NoResult, public |-> NoResult]

\* canUserSubmitFeedback as submitSafetyFeedback and checkFeedbackEligibility
\* hand its answer on.
CheckEligibility ==
    /\ elig.answer = NoResult
    /\ LET e == canUserSubmitFeedback(elig.readFails, elig.lastSubmittedAt, elig.clock)
       IN  elig' = [elig EXCEPT !.answer = SubmitAnswer(e), !.public = EligibilityAnswer(e)]
    /\ UNCHANGED <<now, areas, userFb, reports, pc, arg, snap, wrote, incLog, eligErr, result,
                   cnt, batch, env, results, probe, cells, rc, parse>>

NextElig == CheckEligibility

SpecElig == InitElig /\ [][NextElig]_vars

\* ------------------------------------- SpecRoute: a route's community score
\* The documents a cell can hold: none, or counts with at least one report.
AreaDocs ==
    {NoDoc} \cup { [exists |-> TRUE, safeCount |-> c[1], unsafeCount |-> c[2]] :
                      c \in {<<1, 0>>, <<1, 1>>, <<2, 1>>} }

\* The sample points: those of Coords and one more in the cell of the first.
RoutePoints == Coords \cup { <<123512, 776549>> }

RECURSIVE SeqsUpTo(_, _)
SeqsUpTo(S, n) ==
    IF n = 0 THEN { <<>> }
    ELSE LET shorter == SeqsUpTo(S, n - 1)
         IN  shorter \cup { Append(q, x) : q \in {q \in shorter : Len(q) = n - 1}, x \in S }

InitRoute ==
    /\ InitCalls /\ AreaIdle /\ EligIdle /\ ScoreIdle /\ RiskIdle /\ GridIdle /\ ParseIdle
    /\ areas \in [Grids -> AreaDocs]
    /\ \E points \in SeqsUpTo(RoutePoints, MaxPoints) :
        rc = [pc |-> "idle", points |-> points, uniqueGridIds |-> <<>>, toRead |-> <<>>,
              pending |-> {}, scores |-> <<>>, failed |-> {}, out |-> <<>>]

\* calculateRouteCommunityScore up to its await: the empty route is answered
\* at once; otherwise the grid ids are made unique, getMultipleAreaSafetyScores
\* makes them unique again and starts one read for each.
calculateRouteCommunityScore ==
    /\ rc.pc = "idle"
    /\ IF rc.points = <<>>
       THEN rc' = [rc EXCEPT !.pc = "done",
                             !.out = <<[score |-> NeutralScore, coveredGrids |-> 0,
                                        totalGrids |-> 0]>>]
       ELSE LET gridIds == [i \in 1..Len(rc.points) |->
                               getGridId(rc.points[i][1], rc.points[i][2])]
                uniqueGridIds == UniqueOf(gridIds)
            IN  rc' = [rc EXCEPT !.pc = "reading",
                                 !.uniqueGridIds = uniqueGridIds,
                                 !.toRead = UniqueOf(uniqueGridIds),
                                 !.pending = 1..Len(UniqueOf(uniqueGridIds))]
    /\ UNCHANGED <<now, areas, userFb, reports, pc, arg, snap, wrote, incLog, eligErr, result,
                   cnt, elig, batch, env, results, probe, cells, parse>>

\* One of the parallel reads of getMultipleAreaSafetyScores completes, in any
\* order: getAreaSafetyScore, then scores.set.
getMultipleAreaSafetyScores(i) ==
    /\ rc.pc = "reading" /\ i \in rc.pending
    /\ \E readFails \in BOOLEAN :
        rc' = [rc EXCEPT !.pending = rc.pending \ {i},
                         !.scores = MapSet(rc.scores, rc.toRead[i],
                                           getAreaSafetyScore(rc.toRead[i], readFails)),
                         !.failed = IF readFails THEN rc.failed \cup {rc.toRead[i]}
                                    ELSE rc.failed \ {rc.toRead[i]}]
    /\ UNCHANGED <<now, areas, userFb, reports, pc, arg, snap, wrote, incLog, eligErr, result,
                   cnt, elig, batch, env, results, probe, cells, parse>>

\* calculateRouteCommunityScore after Promise.all: the statistics.
RouteCommunityResult ==
    /\ rc.pc = "reading" /\ rc.pending = {}
    /\ LET stats == ForEachScore(rc.scores, Len(rc.scores))
           averageScore == IF Len(rc.uniqueGridIds) > 0
                           THEN RoundDiv(stats.totalScore, Len(rc.uniqueGridIds))
                           ELSE NeutralScore
       IN  rc' = [rc EXCEPT !.pc = "done",
                            !.out = <<[score |-> averageScore,
                                       coveredGrids |-> stats.gridsWithData,
                                       totalGrids |-> Len(rc.uniqueGridIds)]>>]
    /\ UNCHANGED <<now, areas, userFb, reports, pc, arg, snap, wrote, incLog, eligErr, result,
                   cnt, elig, batch, env, results, probe, cells, parse>>

NextRoute ==
    \/ calculateRouteCommunityScore
    \/ \E i \in 1..MaxPoints : getMultipleAreaSafetyScores(i)
    \/ RouteCommunityResult

SpecRoute == InitRoute /\ [][NextRoute]_vars

\* ------------------------------------------------ SpecGrid: two grid ids
\* Coordinates in units of 1/10000 degree: the three of Coords, neighbours
\* inside and outside their cells, the origin, both hemispheres, the ends of
\* the ranges.
GridPoints ==
    Coords \cup { <<123512, 776549>>, <<123401, 776451>>, <<123456, 776651>>,
                  <<-123456, -776543>>, <<-123449, 776549>>, <<0, 0>>,
                  <<899999, 1799999>> }

InitGrid ==
    /\ InitStore /\ AreaIdle /\ EligIdle /\ ScoreIdle /\ RiskIdle /\ RouteIdle /\ ParseIdle
    /\ \E p \in GridPoints, q \in GridPoints :
        cells = [done |-> FALSE, p |-> p, q |-> q, idP |-> <<0, 0>>, idQ |-> <<0, 0>>]

\* getGridId(latitude, longitude) for each of the two coordinates.
ComputeGridIds ==
    /\ ~cells.done
    /\ cells' = [cells EXCEPT !.done = TRUE,
                              !.idP = getGridId(cells.p[1], cells.p[2]),
                              !.idQ = getGridId(cells.q[1], cells.q[2])]
    /\ UNCHANGED <<now, areas, userFb, reports, pc, arg, snap, wrote, incLog, eligErr, result,
                   cnt, elig, batch, env, results, probe, rc, parse>>

NextGrid == ComputeGridIds

SpecGrid == InitGrid /\ [][NextGrid]_vars

\* ------------------------------------------------- SpecParse: grid keys
\* The characters of the keys that getGridId did not produce.
KeyChars == {"0", "1", ".", "-", "_", "x", " "}

InitParse ==
    /\ InitStore /\ AreaIdle /\ EligIdle /\ ScoreIdle /\ RiskIdle /\ GridIdle /\ RouteIdle
    /\ \/ \E p \in GridPoints :
            parse = [pc |-> "point", fromPoint |-> TRUE, point |-> p, key |-> <<>>,
                     out |-> <<>>, back |-> <<>>]
       \/ \E k \in SeqsUpTo(KeyChars, MaxKeyLen) :
            parse = [pc |-> "key", fromPoint |-> FALSE, point |-> <<0, 0>>, key |-> k,
                     out |-> <<>>, back |-> <<>>]

\* getGridId(latitude, longitude), as the string it returns.
MakeKey ==
    /\ parse.pc = "point"
    /\ parse' = [parse EXCEPT !.pc = "key",
                              !.key = GridKey(getGridId(parse.point[1], parse.point[2]))]
    /\ UNCHANGED <<now, areas, userFb, reports, pc, arg, snap, wrote, incLog, eligErr, result,
                   cnt, elig, batch, env, results, probe, cells, rc>>

\* parseGridId(gridId)
ParseKey ==
    /\ parse.pc = "key"
    /\ parse' = [parse EXCEPT !.pc = "parsed", !.out = <<parseGridId(parse.key)>>]
    /\ UNCHANGED <<now, areas, userFb, reports, pc, arg, snap, wrote, incLog, eligErr, result,
                   cnt, elig, batch, env, results, probe, cells, rc>>

\* getGridId of the coordinates that parseGridId returned for a key of
\* getGridId.
KeyAgain ==
    /\ parse.pc = "parsed" /\ parse.fromPoint /\ parse.out[1].valid
    /\ parse' = [parse EXCEPT !.pc = "done",
                              !.back = GridKey(getGridId(InCoordUnits(parse.out[1].lat),
                                                         InCoordUnits(parse.out[1].lng)))]
    /\ UNCHANGED <<now, areas, userFb, reports, pc, arg, snap, wrote, incLog, eligErr, result,
                   cnt, elig, batch, env, results, probe, cells, rc>>

NextParse == MakeKey \/ ParseKey \/ KeyAgain

SpecParse == InitParse /\ [][NextParse]_vars

\* ------------------------------------------ SpecRisk: one route, every hour
Hours == 0..23
WeatherConditions == {"clear", "cloudy", "rain", "storm", "fog"}
RoadTypes == {"highway", "main_road", "residential", "alley", Absent}
CrimeLevels == {"low", "medium", "high", Absent}
LightingLevels == {"well_lit", "partially_lit", "dark", Absent}

InitRisk ==
    /\ InitStore /\ AreaIdle /\ EligIdle /\ ScoreIdle /\ GridIdle /\ RouteIdle /\ ParseIdle
    /\ \E km \in {0, 3, MaxKm}, minutes \in {0, MaxMinutes}, turns \in {6, MaxTurns},
          road \in RoadTypes, crime \in CrimeLevels, light \in LightingLevels,
          h \in Hours, w \in WeatherConditions :
        probe = [scored |-> FALSE,
                 route |-> [routeId |-> "A", distanceKm |-> km, durationMin |-> minutes,
                            turnCount |-> turns, roadType |-> road, crimeLevel |-> crime,
                            lightingLevel |-> light],
                 environment |-> [currentHour |-> h, weatherCondition |-> w],
                 out |-> <<>>]

\* safetyScorer.calculateRouteSafetyScore(route, environment)
ScoreRoute ==
    /\ ~probe.scored
    /\ probe' = [probe EXCEPT !.scored = TRUE,
                              !.out = calculateRouteSafetyScore(probe.route, probe.environment)]
    /\ UNCHANGED <<now, areas, userFb, reports, pc, arg, snap, wrote, incLog, eligErr, result,
                   cnt, elig, batch, env, results, cells, rc, parse>>

NextRisk == ScoreRoute

SpecRisk == InitRisk /\ [][NextRisk]_vars

\* ------------------------------------------------ SpecScore: route batches
InitScore ==
    /\ InitStore /\ AreaIdle /\ EligIdle /\ OthersIdle
    /\ batch = <<>>
    /\ env \in Environments
    /\ results = [scored |-> FALSE, list |-> <<>>, alone |-> <<>>]

\* The caller collects one more candidate route.
AddRoute ==
    /\ ~results.scored
    /\ Len(batch) < MaxRoutes
    /\ \E shape \in RouteShapes, id \in IdsFor(batch) : batch' = Append(batch, WithId(shape, id))
    /\ UNCHANGED <<now, areas, userFb, reports, pc, arg, snap, wrote, incLog, eligErr, result,
                   cnt, elig, env, results, probe, cells, rc, parse>>

\* safetyScorer.calculateMultipleRoutesSafety(routeInputs, environment)
ScoreBatch ==
    /\ ~results.scored
    /\ results' = [results EXCEPT !.scored = TRUE,
                                  !.list = calculateMultipleRoutesSafety(batch, env)]
    /\ UNCHANGED <<now, areas, userFb, reports, pc, arg, snap, wrote, incLog, eligErr, result,
                   cnt, elig, batch, env, probe, cells, rc, parse>>

\* safetyScorer.calculateRouteSafetyScore(route, environment) for the first
\* route of the batch: the same route, scored in a batch of its own.
ScoreAlone ==
    /\ results.scored /\ results.alone = <<>> /\ batch # <<>>
    /\ results' = [results EXCEPT !.alone = <<calculateRouteSafetyScore(batch[1], env)>>]
    /\ UNCHANGED <<now, areas, userFb, reports, pc, arg, snap, wrote, incLog, eligErr, result,
                   cnt, elig, batch, env, probe, cells, rc, parse>>

NextScore == AddRoute \/ ScoreBatch \/ ScoreAlone

SpecScore == InitScore /\ [][NextScore]_vars

\* ===================================================== the feedback store
Day == CooldownHours * TicksPerHour

\* The call was a submission that returned success.
Submitted(c) ==
    pc[c] = "done" /\ result[c].success /\ result[c].message \in {"safe", "unsafe"}

SafeCountOf(g) == IF areas[g].exists THEN areas[g].safeCount ELSE 0
UnsafeCountOf(g) == IF areas[g].exists THEN areas[g].unsafeCount ELSE 0

\* The least whole number of hours that covers rem ticks.
LeastHours(rem) ==
    CHOOSE h \in 0..CooldownHours : h * TicksPerHour >= rem /\ (h - 1) * TicksPerHour < rem

\* n is the integer nearest to 100 * s / t, halves upwards.
IsRoundedPercent(n, s, t) == 2 * (n * t - 100 * s) <= t /\ 2 * (100 * s - n * t) < t

\* C1: once every call has returned success, each cell's safeCount is the
\* number of calls that reported it safe and its unsafeCount the number of
\* calls that reported it unsafe: N successful safe reports to one cell by N
\* users give safeCount = N and unsafeCount = 0, whatever the interleaving.
C1_NoLostUpdate ==
    (\A c \in Calls : Submitted(c)) =>
        \A g \in Grids :
            /\ SafeCountOf(g) = Cardinality({c \in Calls : arg[c].gridId = g /\ arg[c].isSafe})
            /\ UnsafeCountOf(g) = Cardinality({c \in Calls : arg[c].gridId = g /\ ~arg[c].isSafe})

\* Every call is a successful safe report to the same cell, by distinct users
\* at the same instant, and the cell counts them all.
C1_Witness ==
    /\ \A c \in Calls : Submitted(c) /\ arg[c].isSafe /\ arg[c].gridId = arg[1].gridId
    /\ \A c, d \in Calls : c # d => arg[c].userId # arg[d].userId
    /\ now = 0
    /\ SafeCountOf(arg[1].gridId) = NCalls

\* C2: two count increments of one user to one grid cell are at least 24
\* hours apart.
C2_OncePerDay ==
    \A a, b \in incLog :
        (a # b /\ a.userId = b.userId /\ a.gridId = b.gridId) =>
            (a.at - b.at >= Day \/ b.at - a.at >= Day)

\* C3: a call that reads a cooldown record less than 24 hours old returns at
\* once, with success = false and the message carrying the remaining whole
\* hours, and that step changes neither the counts, nor the cooldown records,
\* nor the reports.
C3_DeniedChangesNothing ==
    [][\A c \in Calls :
        LET last == userFb[<<arg[c].userId, arg[c].gridId>>]
        IN  (/\ pc[c] = "eligibility" /\ pc'[c] # "eligibility"
             /\ ~eligErr'[c]
             /\ last # NoTime /\ now - last < Day)
            => /\ pc'[c] = "done"
               /\ result'[c] = [success |-> FALSE, message |-> "cooldown",
                                 hours |-> LeastHours(Day - (now - last)), score |-> NoScore]
               /\ result'[c].hours \in 1..CooldownHours
               /\ wrote'[c] = {}
               /\ areas' = areas /\ userFb' = userFb /\ reports' = reports]_vars

\* A submission was denied half an hour before the end of the cooldown, with
\* one hour remaining.
C3_Witness ==
    \E c \in Calls :
        /\ pc[c] = "done" /\ result[c].message = "cooldown" /\ ~eligErr[c]
        /\ arg[c].isSafe
        /\ result[c].hours = 1
        /\ userFb[<<arg[c].userId, arg[c].gridId>>] = 0

\* C4: a call that has returned performed all three writes (counts, cooldown
\* record, report) or none of them.
C4_AllOrNothing ==
    \A c \in Calls :
        pc[c] = "done" => (wrote[c] = {} \/ wrote[c] = {"counts", "cooldown", "report"})

\* C5: a call whose eligibility read failed has returned, without success,
\* with 24 hours remaining, and has performed no write.
C5_FailClosed ==
    \A c \in Calls :
        eligErr[c] =>
            /\ pc[c] = "done"
            /\ result[c] = [success |-> FALSE, message |-> "cooldown",
                            hours |-> CooldownHours, score |-> NoScore]
            /\ wrote[c] = {}
            /\ \A r \in reports : r.id # c
            /\ \A a \in incLog : a.call # c

\* The eligibility read failed for a user with no cooldown record, who was
\* denied.
C5_Witness ==
    \E c \in Calls :
        /\ eligErr[c] /\ pc[c] = "done" /\ ~result[c].success
        /\ userFb[<<arg[c].userId, arg[c].gridId>>] = NoTime

\* C8: the score read for a cell is 50 when the cell has no reports, and
\* otherwise the integer nearest to 100 * safeCount / (safeCount +
\* unsafeCount), in 0..100: 100 after one safe report, 50 after one safe and
\* one unsafe report.
C8_AreaScore ==
    \A g \in Grids :
        LET score == getAreaSafetyScore(g, FALSE)
            s == SafeCountOf(g)
            u == UnsafeCountOf(g)
        IN  /\ score \in 0..100
            /\ (s + u = 0) => score = 50
            /\ (s + u > 0) => IsRoundedPercent(score, s, s + u)
            /\ (s = 1 /\ u = 0) => score = 100
            /\ (s = 1 /\ u = 1) => score = 50

\* A cell holds one safe and one unsafe report of two successful calls.
C8_Witness ==
    \E g \in Grids :
        /\ SafeCountOf(g) = 1 /\ UnsafeCountOf(g) = 1
        /\ \A c \in Calls : Submitted(c) /\ arg[c].gridId = g

\* ========================================================= the area score
\* C7 as stated: the score is 50 exactly for the pair 0/0.
C7_FiftyOnlyForEmpty ==
    cnt.score # NoScore => (cnt.score = 50 <=> (cnt.safeCount = 0 /\ cnt.unsafeCount = 0))

\* C7 amended: 0/0 gives exactly 50, and a pair with reports gives 50 exactly
\* when its safe share rounds to 50 percent, as it does whenever safeCount =
\* unsafeCount.
C7_FiftyForEmptyAndEven ==
    cnt.score # NoScore =>
        LET s == cnt.safeCount
            t == cnt.safeCount + cnt.unsafeCount
        IN  /\ (t = 0) => cnt.score = 50
            /\ (cnt.safeCount = cnt.unsafeCount) => cnt.score = 50
            /\ (t > 0) => (cnt.score = 50 <=> (99 * t <= 200 * s /\ 200 * s < 101 * t))

\* The score of the empty pair was computed.
C7_Witness ==
    cnt.score = 50 /\ cnt.safeCount = 0 /\ cnt.unsafeCount = 0

\* ==================================================== the eligibility check
\* C6: without a read failure the answer is canSubmit = true exactly when
\* there is no record or at least 24 hours have passed; otherwise it is
\* canSubmit = false with the remaining hours rounded up. 23 hours after a
\* submission: denied, 1 hour remaining; 25 hours after: allowed.
C6_Eligibility ==
    (elig.answer # NoResult /\ ~elig.readFails) =>
        LET elapsed == elig.clock - elig.lastSubmittedAt
            ok == elig.lastSubmittedAt = NoTime \/ elapsed >= Day
        IN  /\ elig.answer.success <=> ok
            /\ elig.public.success <=> ok
            /\ ~ok => /\ elig.answer.hours = LeastHours(Day - elapsed)
                      /\ elig.public.hours = LeastHours(Day - elapsed)
            /\ (elig.lastSubmittedAt # NoTime /\ elapsed = 23 * TicksPerHour)
                   => (~elig.answer.success /\ elig.answer.hours = 1)
            /\ (elig.lastSubmittedAt # NoTime /\ elapsed = 25 * TicksPerHour)
                   => elig.answer.success

\* The check ran 23 hours after the last submission and denied with one hour
\* remaining.
C6_Witness ==
    /\ elig.lastSubmittedAt = 0 /\ elig.clock = 23 * TicksPerHour /\ ~elig.readFails
    /\ ~elig.answer.success /\ elig.answer.hours = 1 /\ elig.answer.message = "cooldown"

\* ========================================================= the route scorer
UniqueRouteIds == \A i, j \in 1..Len(batch) : i # j => batch[i].routeId # batch[j].routeId

\* C9: the scored batch has one result per route, result i carrying the
\* routeId of route i; the empty batch gives the empty list.
C9_OneResultPerRoute ==
    results.scored =>
        /\ Len(results.list) = Len(batch)
        /\ \A i \in 1..Len(batch) : results.list[i].routeId = batch[i].routeId
        /\ (batch = <<>>) => (results.list = <<>>)

\* Three routes with distinct ids were scored, and the first of the input is
\* not the safest.
C9_Witness ==
    /\ results.scored /\ Len(batch) = 3 /\ UniqueRouteIds
    /\ results.list[1].rank = 3 /\ results.list[3].rank = 1
    /\ results.list[1].routeId = batch[1].routeId

\* C10: in a batch with unique routeIds the ranks are a permutation of 1..N,
\* a route of lower raw risk has the better rank, of two routes of equal raw
\* risk the earlier in the input has the better rank, and no route has a
\* lower raw risk than the route of rank 1.
C10_RanksByRisk ==
    (results.scored /\ UniqueRouteIds) =>
        LET r == results.list
            N == Len(batch)
        IN  /\ {r[i].rank : i \in 1..N} = 1..N
            /\ \A i, j \in 1..N :
                   (r[i].totalRawRisk < r[j].totalRawRisk
                    \/ (r[i].totalRawRisk = r[j].totalRawRisk /\ i < j))
                   => r[i].rank < r[j].rank
            /\ \A i, j \in 1..N : r[i].rank = 1 => r[i].totalRawRisk <= r[j].totalRawRisk

\* Three routes with distinct ids were scored; the first two have the same
\* raw risk, higher than the third's.
C10_Witness ==
    /\ results.scored /\ Len(batch) = 3 /\ UniqueRouteIds
    /\ results.list[1].totalRawRisk = results.list[2].totalRawRisk
    /\ results.list[3].totalRawRisk < results.list[1].totalRawRisk
    /\ results.list[1].rank = 2 /\ results.list[2].rank = 3 /\ results.list[3].rank = 1

\* ============================================== relative scores and bands
\* Math.round(n / d) = s, stated without dividing.
IsMathRound(s, n, d) == 2 * s * d - d <= 2 * n /\ 2 * n < 2 * s * d + d

\* The attributes of a route, without its routeId.
ShapeOf(route) ==
    [distanceKm |-> route.distanceKm, durationMin |-> route.durationMin,
     turnCount |-> route.turnCount, roadType |-> route.roadType,
     crimeLevel |-> route.crimeLevel, lightingLevel |-> route.lightingLevel]

\* C11: in a batch of more than one route every safetyScore is an integer of
\* 42..92 that lies in the band of the route's rank, and the category goes
\* with the rank: rank 1 is in 75..92 and 'Safest Option', the last rank is
\* in 42..57 and 'Least Safe Option', every rank between is in 58..74 and
\* 'Moderate Option'.
C11_ScoreInRankBand ==
    (results.scored /\ Len(batch) > 1) =>
        \A i \in 1..Len(results.list) :
            LET r == results.list[i]
            IN  /\ r.safetyScore \in 42..92
                /\ r.rank = 1 =>
                       r.safetyScore \in 75..92 /\ r.safetyCategory = "Safest Option"
                /\ r.rank = Len(batch) =>
                       r.safetyScore \in 42..57 /\ r.safetyCategory = "Least Safe Option"
                /\ r.rank \notin {1, Len(batch)} =>
                       r.safetyScore \in 58..74 /\ r.safetyCategory = "Moderate Option"

\* Three routes, one in each band, the middle one strictly inside its band.
C11_Witness ==
    /\ results.scored /\ Len(batch) = 3 /\ UniqueRouteIds
    /\ \E i, j, k \in 1..3 :
        /\ results.list[i].rank = 1 /\ results.list[i].safetyScore = 92
        /\ results.list[j].rank = 2 /\ results.list[j].safetyScore \in 59..73
        /\ results.list[k].rank = 3 /\ results.list[k].safetyScore = 42

\* C12: a batch of one route, and calculateRouteSafetyScore, give exactly
\* one result, of rank 1 and category 'Safest Option', whose safetyScore is
\* round(clamp(55, 90, (1 - rawRisk) * 100 + 15)), an integer of 55..90.
SingleRouteResult(r) ==
    LET x == (RiskUnit - r.totalRawRisk) * 100 + 15 * RiskUnit
        clamped == IF x < 55 * RiskUnit THEN 55 * RiskUnit
                   ELSE IF x > 90 * RiskUnit THEN 90 * RiskUnit ELSE x
    IN  /\ r.rank = 1
        /\ r.safetyCategory = "Safest Option"
        /\ r.safetyScore \in 55..90
        /\ IsMathRound(r.safetyScore, clamped, RiskUnit)

C12_SingleRoute ==
    /\ (results.scored /\ Len(batch) = 1) =>
           Len(results.list) = 1 /\ SingleRouteResult(results.list[1])
    /\ results.alone # <<>> =>
           /\ Len(results.alone) = 1
           /\ SingleRouteResult(results.alone[1])
           /\ results.alone[1].routeId = batch[1].routeId

\* A single route whose unclamped score is above 90, and one strictly inside.
C12_Witness ==
    /\ results.scored /\ Len(batch) = 1 /\ results.alone # <<>>
    /\ (RiskUnit - results.list[1].totalRawRisk) * 100 + 15 * RiskUnit > 90 * RiskUnit
    /\ results.list[1].safetyScore = 90

\* C13: in a batch of more than one route (with the routeIds the data model
\* requires: unique) a route of better rank never has a lower safetyScore
\* than a route of worse rank, and the score of rank 1 is strictly above the
\* score of the last rank; three routes of strictly growing risk get the
\* ranks 1, 2, 3 and scores in 75..92, 58..74, 42..57.
C13_ScoreFollowsRank ==
    (results.scored /\ Len(batch) > 1 /\ UniqueRouteIds) =>
        LET r == results.list
            N == Len(batch)
        IN  /\ \A i, j \in 1..N : r[i].rank < r[j].rank => r[i].safetyScore >= r[j].safetyScore
            /\ \A i, j \in 1..N :
                   (r[i].rank = 1 /\ r[j].rank = N) => r[i].safetyScore > r[j].safetyScore
            /\ \E i \in 1..N : r[i].rank = 1
            /\ \E j \in 1..N : r[j].rank = N
            /\ (N = 3 /\ r[1].totalRawRisk < r[2].totalRawRisk
                      /\ r[2].totalRawRisk < r[3].totalRawRisk) =>
                   /\ r[1].rank = 1 /\ r[2].rank = 2 /\ r[3].rank = 3
                   /\ r[1].safetyScore \in 75..92
                   /\ r[2].safetyScore \in 58..74
                   /\ r[3].safetyScore \in 42..57

\* Four routes: the two middle ranks share a band and differ in score.
C13_Witness ==
    /\ results.scored /\ Len(batch) = 4 /\ UniqueRouteIds
    /\ \E i, j \in 1..4 :
        /\ results.list[i].rank = 2 /\ results.list[j].rank = 3
        /\ results.list[i].safetyScore > results.list[j].safetyScore

\* C14: riskFactors and rawRiskScore of a route are the same in every batch
\* it is scored in (in a batch of several, in a batch of its own, and twice
\* in one batch), while its safetyScore and safetyCategory can differ from
\* batch to batch.
C14_RawRiskIsAbsolute ==
    /\ (results.scored /\ results.alone # <<>>) =>
           /\ results.alone[1].riskFactors = results.list[1].riskFactors
           /\ results.alone[1].rawRiskScore = results.list[1].rawRiskScore
    /\ results.scored =>
           \A i, j \in 1..Len(results.list) :
               ShapeOf(batch[i]) = ShapeOf(batch[j]) =>
                   /\ results.list[i].riskFactors = results.list[j].riskFactors
                   /\ results.list[i].rawRiskScore = results.list[j].rawRiskScore

\* The same route, last of three and alone: score and category both differ.
C14_Witness ==
    /\ results.scored /\ Len(batch) = 3 /\ UniqueRouteIds /\ results.alone # <<>>
    /\ results.list[1].rank = 3
    /\ results.list[1].safetyScore # results.alone[1].safetyScore
    /\ results.list[1].safetyCategory = "Least Safe Option"
    /\ results.alone[1].safetyCategory = "Safest Option"
    /\ results.list[1].riskFactors = results.alone[1].riskFactors

\* C17: every result has 3 to 5 highlights and 1 to 4 recommendations.
C17_ListLengths ==
    results.scored =>
        \A i \in 1..Len(results.list) :
            /\ Len(results.list[i].highlights) \in 3..5
            /\ Len(results.list[i].recommendations) \in 1..4

\* ========================================================= the raw risk
\* C16: for every route with distanceKm, durationMin, turnCount >= 0, every
\* hour 0..23 and every weather, each of the eight sub-factors is in [0, 1],
\* the eight weights sum to exactly 1, totalRawRisk is the weighted sum of
\* the sub-factors and is in [0, 1], and rawRiskScore is
\* round(totalRawRisk * 100), an integer of 0..100.
C16_RawRiskRange ==
    /\ WEIGHTS.crime + WEIGHTS.lighting + WEIGHTS.time + WEIGHTS.distance + WEIGHTS.duration
       + WEIGHTS.roadType + WEIGHTS.weather + WEIGHTS.turn = WeightUnit
    /\ probe.scored =>
        LET f == probe.out.riskFactors
            sum == 25 * f.crimeRisk + 15 * f.lightingRisk + 15 * f.timeRisk
                   + 10 * f.distanceRisk + 10 * f.durationRisk + 10 * f.roadTypeRisk
                   + 10 * f.weatherRisk + 5 * f.turnRisk
        IN  /\ \A x \in {f.distanceRisk, f.durationRisk, f.turnRisk, f.timeRisk,
                         f.weatherRisk, f.crimeRisk, f.lightingRisk, f.roadTypeRisk} :
                   x \in 0..FactorUnit
            /\ probe.out.totalRawRisk = sum
            /\ probe.out.totalRawRisk \in 0..RiskUnit
            /\ probe.out.rawRiskScore \in 0..100
            /\ IsMathRound(probe.out.rawRiskScore, probe.out.totalRawRisk * 100, RiskUnit)

\* The worst route drawn, at night in a storm: three sub-factors at their cap.
C16_Witness ==
    /\ probe.scored
    /\ probe.route.distanceKm > 10 /\ probe.out.riskFactors.distanceRisk = FactorUnit
    /\ probe.route.durationMin > 30 /\ probe.out.riskFactors.durationRisk = FactorUnit
    /\ probe.environment.currentHour = 23 /\ probe.environment.weatherCondition = "storm"
    /\ probe.out.riskFactors.timeRisk = FactorUnit
    /\ probe.out.rawRiskScore >= 90

\* ============================================================== grid ids
\* x, in 1/10000 degree, is nearest to n hundredths of a degree (the half
\* way point goes up).
NearestCenti(x, n) == 100 * n - 50 <= x /\ x < 100 * n + 50

SameCenti(x, y) == \E n \in -18000..18000 : NearestCenti(x, n) /\ NearestCenti(y, n)

\* C18, as the spec states it: getGridId(12.3456, 77.6543) equals
\* getGridId(12.3449, 77.6549), and differs from getGridId(12.36, 77.6543).
C18_SameCellExample ==
    (cells.done /\ cells.p = <<123456, 776543>>) =>
        /\ cells.q = <<123449, 776549>> => cells.idP = cells.idQ
        /\ cells.q = <<123600, 776543>> => cells.idP # cells.idQ

\* C18, amended: getGridId(12.3456, 77.6543) is the cell 12.35_77.65 and
\* getGridId(12.3449, 77.6549) is the cell 12.34_77.65, a different one; it
\* equals getGridId(12.3512, 77.6549) and differs from
\* getGridId(12.36, 77.6543). Two coordinates have the same grid id exactly
\* when their latitudes round to the same hundredth and their longitudes
\* round to the same hundredth.
C18_RoundedCells ==
    cells.done =>
        /\ cells.p = <<123456, 776543>> =>
               /\ cells.idP = <<1235, 7765>>
               /\ cells.q = <<123449, 776549>> =>
                      cells.idQ = <<1234, 7765>> /\ cells.idP # cells.idQ
               /\ cells.q = <<123512, 776549>> => cells.idP = cells.idQ
               /\ cells.q = <<123600, 776543>> => cells.idP # cells.idQ
        /\ cells.idP = cells.idQ <=>
               SameCenti(cells.p[1], cells.q[1]) /\ SameCenti(cells.p[2], cells.q[2])

\* The pair of the spec's example, with its two different grid ids.
C18_Witness ==
    /\ cells.done
    /\ cells.p = <<123456, 776543>> /\ cells.q = <<123449, 776549>>
    /\ cells.idP # cells.idQ

\* ================================================ route community score
\* The unique cells of the route, and what getAreaSafetyScore answers for a
\* cell: the neutral 50 when the read failed or the cell has no document,
\* the rounded safe share otherwise.
CellsOfRoute == { getGridId(rc.points[i][1], rc.points[i][2]) : i \in 1..Len(rc.points) }

AreaScoreRead(g) ==
    IF g \in rc.failed \/ ~areas[g].exists THEN 50
    ELSE calculateAreaSafetyScore(areas[g].safeCount, areas[g].unsafeCount)

RECURSIVE SumOfScores(_)
SumOfScores(S) ==
    IF S = {} THEN 0
    ELSE LET g == CHOOSE x \in S : TRUE IN AreaScoreRead(g) + SumOfScores(S \ {g})

\* C19: calculateRouteCommunityScore returns score = round(mean of the area
\* scores of the unique cells of the route) and totalGrids = the number of
\* unique cells, both functions of the set of cells alone (not of the order
\* of the points, of repeated points or of the order the reads complete in);
\* for the empty route it returns score 50, coveredGrids 0, totalGrids 0.
C19_RouteCommunityScore ==
    rc.pc = "done" =>
        /\ Len(rc.out) = 1
        /\ rc.out[1].totalGrids = Cardinality(CellsOfRoute)
        /\ rc.points = <<>> =>
               rc.out[1] = [score |-> 50, coveredGrids |-> 0, totalGrids |-> 0]
        /\ rc.points # <<>> =>
               IsMathRound(rc.out[1].score, SumOfScores(CellsOfRoute), Cardinality(CellsOfRoute))

\* Three points in two cells, a repeated cell that is not adjacent, the
\* reads completing against the order of the points, a mean that rounds up.
C19_Witness ==
    /\ rc.pc = "done" /\ Len(rc.points) = 3 /\ rc.failed = {}
    /\ getGridId(rc.points[1][1], rc.points[1][2]) = getGridId(rc.points[3][1], rc.points[3][2])
    /\ rc.points[1] # rc.points[3]
    /\ Len(rc.scores) = 2 /\ rc.scores[1].gridId = rc.uniqueGridIds[2]
    /\ rc.scores[1].score = 67 /\ rc.scores[2].score = 100
    /\ rc.out[1] = [score |-> 84, coveredGrids |-> 2, totalGrids |-> 2]

\* C20: coveredGrids is the number of unique cells of the route that have
\* community data (at least one report stored), and 0 <= coveredGrids <=
\* totalGrids. Stated for the runs in which every read succeeded.
C20_CoveredGrids ==
    (rc.pc = "done" /\ rc.failed = {}) =>
        /\ rc.out[1].coveredGrids =
               Cardinality({ g \in CellsOfRoute :
                               areas[g].exists /\ areas[g].safeCount + areas[g].unsafeCount >= 1 })
        /\ 0 <= rc.out[1].coveredGrids
        /\ rc.out[1].coveredGrids <= rc.out[1].totalGrids

\* ======================================== the feedback store: write order
\* C21: in every execution of submitSafetyFeedback the cooldown record is
\* written only after the count transaction has committed, the AreaReport is
\* appended only after the cooldown record has been written, and the call
\* returns success only after all three writes, made in that order.
C21_WriteOrder ==
    [][\A c \in Calls :
          /\ ("cooldown" \in wrote'[c] /\ "cooldown" \notin wrote[c]) =>
                 ("counts" \in wrote[c] /\ "report" \notin wrote[c])
          /\ ("report" \in wrote'[c] /\ "report" \notin wrote[c]) =>
                 ("counts" \in wrote[c] /\ "cooldown" \in wrote[c])
          /\ ("counts" \in wrote'[c] /\ "counts" \notin wrote[c]) => wrote[c] = {}
          /\ (Submitted(c)' /\ ~Submitted(c)) =>
                 wrote[c] = {"counts", "cooldown", "report"}]_vars

\* A call that returned success after its three writes, while another call
\* has committed its counts and written nothing else yet.
C21_Witness ==
    \E c, d \in Calls :
        /\ c # d /\ Submitted(c) /\ wrote[c] = {"counts", "cooldown", "report"}
        /\ wrote[d] = {"counts"} /\ pc[d] = "cooldown"

\* =============================================== the relative score formula
\* The band of a rank in a batch of N routes, and the least and greatest
\* raw risk among the results.
BandMin(rank, N) == IF rank = 1 THEN 75 ELSE IF rank = N THEN 42 ELSE 58
BandMax(rank, N) == IF rank = 1 THEN 92 ELSE IF rank = N THEN 57 ELSE 74

LeastRisk == CHOOSE m \in {results.list[i].totalRawRisk : i \in 1..Len(results.list)} :
                 \A i \in 1..Len(results.list) : m <= results.list[i].totalRawRisk
GreatestRisk == CHOOSE m \in {results.list[i].totalRawRisk : i \in 1..Len(results.list)} :
                    \A i \in 1..Len(results.list) : m >= results.list[i].totalRawRisk

\* C22: in a batch of more than one route, when the greatest raw risk is
\* less than 0.01 above the least, every score is
\* round(band.min + 0.7 * (band.max - band.min)) of the band of its rank;
\* otherwise it is round(band.min + (band.max - band.min) * (1 - (risk -
\* min) / spread)), so within one band the lower risk never scores lower.
C22_RelativeScoreFormula ==
    (results.scored /\ Len(batch) > 1) =>
        LET N == Len(batch)
            spread == GreatestRisk - LeastRisk
        IN  \A i \in 1..N :
                LET r == results.list[i]
                    lo == BandMin(r.rank, N)
                    width == BandMax(r.rank, N) - lo
                IN  IF 100 * spread < RiskUnit
                    THEN IsMathRound(r.safetyScore, 10 * lo + 7 * width, 10)
                    ELSE /\ IsMathRound(r.safetyScore,
                                        lo * spread + width * (spread - (r.totalRawRisk - LeastRisk)),
                                        spread)
                         /\ \A j \in 1..N :
                                (BandMin(results.list[j].rank, N) = lo
                                 /\ r.totalRawRisk < results.list[j].totalRawRisk) =>
                                    r.safetyScore >= results.list[j].safetyScore

\* Three routes whose risks differ by less than 0.01 without being equal:
\* each sits at 70% of its band, 87, 69 and 53.
C22_Witness ==
    /\ results.scored /\ Len(batch) = 3 /\ UniqueRouteIds
    /\ GreatestRisk > LeastRisk /\ 100 * (GreatestRisk - LeastRisk) < RiskUnit
    /\ \E i, j, k \in 1..3 :
        /\ results.list[i].rank = 1 /\ results.list[i].safetyScore = 87
        /\ results.list[j].rank = 2 /\ results.list[j].safetyScore = 69
        /\ results.list[k].rank = 3 /\ results.list[k].safetyScore = 53

\* C28: in a batch of more than one route (with unique routeIds) whose risk
\* spread is at least 0.01, the score of rank 1 is exactly 92 and the score
\* of the last rank is exactly 42, whatever the raw risks are; only the ranks
\* between take values inside their band.
C28_EndsOfTheScale ==
    (results.scored /\ Len(batch) > 1 /\ UniqueRouteIds
     /\ 100 * (GreatestRisk - LeastRisk) >= RiskUnit) =>
        \A i \in 1..Len(batch) :
            /\ results.list[i].rank = 1 => results.list[i].safetyScore = 92
            /\ results.list[i].rank = Len(batch) => results.list[i].safetyScore = 42
            /\ results.list[i].safetyScore \notin {92, 42} =>
                   results.list[i].rank \notin {1, Len(batch)}

\* Four routes, two of them tied for the least risk: 92 for rank 1, 42 for
\* rank 4, the tied second route at the top of the middle band and the third
\* inside it.
C28_Witness ==
    /\ results.scored /\ Len(batch) = 4 /\ UniqueRouteIds
    /\ 100 * (GreatestRisk - LeastRisk) >= RiskUnit
    /\ \E i, j, k, l \in 1..4 :
        /\ results.list[i].rank = 1 /\ results.list[i].safetyScore = 92
        /\ results.list[j].rank = 2 /\ results.list[j].safetyScore = 74
        /\ results.list[j].totalRawRisk = results.list[i].totalRawRisk
        /\ results.list[k].rank = 3 /\ results.list[k].safetyScore \in 59..73
        /\ results.list[l].rank = 4 /\ results.list[l].safetyScore = 42

\* ============================================================ the time risk
\* C23: for every hour of 0..23 the time risk is 1.0 if hour >= 22 or
\* hour <= 5, otherwise 0.6 if hour >= 19 or hour <= 7, otherwise 0.2.
C23_TimeRiskTable ==
    probe.scored =>
        LET h == probe.environment.currentHour
            t == probe.out.riskFactors.timeRisk
        IN  /\ h \in {22, 23, 0, 1, 2, 3, 4, 5} => 10 * t = 10 * FactorUnit
            /\ h \in {6, 7, 19, 20, 21} => 10 * t = 6 * FactorUnit
            /\ h \in 8..18 => 10 * t = 2 * FactorUnit
            /\ h \in 0..23

\* The first hour of the night.
C23_Witness ==
    /\ probe.scored /\ probe.environment.currentHour = 22
    /\ probe.out.riskFactors.timeRisk = FactorUnit

\* C24, as the spec states it: timeRisk(7) = 0.6 and timeRisk(6) is not 0.6.
C24_SevenButNotSix ==
    probe.scored =>
        /\ probe.environment.currentHour = 7 =>
               10 * probe.out.riskFactors.timeRisk = 6 * FactorUnit
        /\ probe.environment.currentHour = 6 =>
               10 * probe.out.riskFactors.timeRisk # 6 * FactorUnit

\* C24, amended: at the morning boundary hour = 7 falls into the 0.6 branch
\* and so does hour = 6; the neighbours that do not are hour = 5, which is
\* 1.0, and hour = 8, which is 0.2.
C24_MorningBoundary ==
    probe.scored =>
        /\ probe.environment.currentHour \in {6, 7} =>
               10 * probe.out.riskFactors.timeRisk = 6 * FactorUnit
        /\ probe.environment.currentHour = 5 =>
               probe.out.riskFactors.timeRisk = FactorUnit
        /\ probe.environment.currentHour = 8 =>
               10 * probe.out.riskFactors.timeRisk = 2 * FactorUnit

\* A route scored at hour 6, with the time risk 0.6.
C24_Witness ==
    /\ probe.scored /\ probe.environment.currentHour = 6
    /\ 10 * probe.out.riskFactors.timeRisk = 6 * FactorUnit

\* ============================================================= grid keys
\* The number x read from a string is n hundredths.
IsHundredths(x, n) ==
    /\ ~x.nan
    /\ x.mantissa * 100 = (IF n < 0 THEN -n ELSE n) * Pow10(x.decimals)
    /\ n < 0 => x.negative
    /\ n > 0 => ~x.negative

\* A valid answer is given only to keys with exactly one underscore; a key of
\* getGridId is answered with its coordinates rounded to two decimals, and
\* getGridId of those coordinates is the key again.
RoundTripOfKeys ==
    /\ (parse.pc \in {"parsed", "done"} /\ parse.out[1].valid) =>
           Cardinality({i \in 1..Len(parse.key) : parse.key[i] = "_"}) = 1
    /\ (parse.pc \in {"parsed", "done"} /\ parse.fromPoint) =>
           /\ parse.out[1].valid
           /\ IsHundredths(parse.out[1].lat, RoundCenti(parse.point[1]))
           /\ IsHundredths(parse.out[1].lng, RoundCenti(parse.point[2]))
    /\ parse.pc = "done" => parse.back = parse.key

\* C25: parseGridId returns the invalid signal unless the key is exactly two
\* parts around one underscore, both numeric (here: neither holding a
\* letter); for a key that getGridId produced it returns the coordinates
\* rounded to two decimals, and getGridId of those coordinates is the key
\* again.
C25_ParseGridId ==
    /\ RoundTripOfKeys
    /\ (parse.pc \in {"parsed", "done"} /\ parse.out[1].valid) =>
           \A i \in 1..Len(parse.key) : parse.key[i] # "x"

CommitsCounts(c) == pc[c] = "txnCommit" /\ pc'[c] = "cooldown"

\* C27: each committed count transaction creates its cell with the counts
\* (1,0) or (0,1) when the cell does not exist, and otherwise adds 1 to
\* safeCount (isSafe) or to unsafeCount (not isSafe) and leaves the other
\* count as it was; it leaves every other cell unchanged; and no step of any
\* operation lowers a count or deletes a cell.
C27_CountTransaction ==
    [][ /\ \A c \in Calls :
            CommitsCounts(c) =>
                LET g == arg[c].gridId
                IN  /\ areas'[g].exists
                    /\ ~areas[g].exists =>
                           /\ areas'[g].safeCount = (IF arg[c].isSafe THEN 1 ELSE 0)
                           /\ areas'[g].unsafeCount = (IF arg[c].isSafe THEN 0 ELSE 1)
                    /\ areas[g].exists =>
                           /\ areas'[g].safeCount =
                                  areas[g].safeCount + (IF arg[c].isSafe THEN 1 ELSE 0)
                           /\ areas'[g].unsafeCount =
                                  areas[g].unsafeCount + (IF arg[c].isSafe THEN 0 ELSE 1)
                    /\ \A h \in Grids \ {g} : areas'[h] = areas[h]
        /\ \A g \in Grids :
            /\ areas'[g] # areas[g] => \E c \in Calls : CommitsCounts(c) /\ arg[c].gridId = g
            /\ areas[g].exists =>
                   /\ areas'[g].exists
                   /\ areas'[g].safeCount >= areas[g].safeCount
                   /\ areas'[g].unsafeCount >= areas[g].unsafeCount ]_vars

\* Two transactions have committed to one cell, the first creating it and
\* the second adding to it: the cell holds two reports.
C27_Witness ==
    \E g \in Grids :
        /\ SafeCountOf(g) + UnsafeCountOf(g) = 2
        /\ \A c \in Calls : "counts" \in wrote[c] /\ arg[c].gridId = g

ReportsOf(g) == {r \in reports : r.gridId = g}

\* C29: in every reachable state, whatever the interleaving of the calls and
\* whichever of their writes fail, a cell has at most as many AreaReport
\* entries as safeCount + unsafeCount, and a cooldown record of a user for a
\* cell exists only when safeCount + unsafeCount of the cell is at least 1.
C29_ReportsWithinCounts ==
    \A g \in Grids :
        /\ Cardinality(ReportsOf(g)) <= SafeCountOf(g) + UnsafeCountOf(g)
        /\ \A u \in Users :
               userFb[<<u, g>>] # NoTime => SafeCountOf(g) + UnsafeCountOf(g) >= 1

\* Two calls have counted in one cell and written their cooldown records; the
\* report of one of them was written and the write of the other failed.
C29_Witness ==
    \E g \in Grids :
        /\ SafeCountOf(g) + UnsafeCountOf(g) = 2
        /\ Cardinality(ReportsOf(g)) = 1
        /\ \E u \in Users : userFb[<<u, g>>] # NoTime
        /\ \E c \in Calls : /\ arg[c].gridId = g
                             /\ wrote[c] = {"counts", "cooldown"}
                             /\ result[c] = GenericFailure

\* C30: whenever submitSafetyFeedback returns success = true, the
\* newSafetyScore it returns is the area score of counts of the cell that
\* include the increment of the call itself (so safeCount + unsafeCount >=
\* 1), also when other calls write to the cell at the same time and also
\* when the read of the cell after the writes fails.
C30_ScoreIncludesOwnReport ==
    \A c \in Calls :
        Submitted(c) =>
            LET g == arg[c].gridId
            IN  \E s \in 0..SafeCountOf(g), u \in 0..UnsafeCountOf(g) :
                    /\ s + u >= 1
                    /\ IF arg[c].isSafe THEN s >= 1 ELSE u >= 1
                    /\ result[c].score = calculateAreaSafetyScore(s, u)
====
